---- MODULE Spec2Model ----
(***************************************************************************)
(* Model of onpolicy/envs/mpe/rendering.py: the Attr / Transform / Geom    *)
(* hierarchy, the Viewer frame lifecycle and SimpleImageViewer.            *)
(*                                                                         *)
(* Numbers are integers.  A rotation is a number of quarter turns, so that *)
(* cos and sin are exact; a colour channel is counted in halves (the value *)
(* 1.0 is ColorOne) so that the edge colour 0.5 * c is exact.              *)
(*                                                                         *)
(* Four specifications share the module, one per object under study:       *)
(*   SpecAffine  one Transform and Transform.as_affine                     *)
(*   SpecGeom    one Geom: add_attr, set_color, set_linewidth, draw        *)
(*   Spec        one Viewer: set_bounds, add_geom, add_onetime, render     *)
(*   SpecImage   one SimpleImageViewer: imshow, close                      *)
(***************************************************************************)
EXTENDS Integers, Sequences, FiniteSets, TLC

VARIABLES
    \* --- Transform under study (SpecAffine)
    tr,             \* the Transform object: translation, rotation, scale
    pt,             \* a local-space point
    out,            \* <<result of the last as_affine().transform(pt)>>, or <<>>
    \* --- Geom under study (SpecGeom)
    obj,            \* the Geom object
    gret,           \* record of the last call on obj
    \* --- Viewer (Spec)
    geoms,          \* Viewer.geoms: persistent list (indices into Scene)
    onetime_geoms,  \* Viewer.onetime_geoms
    _bounds,        \* Viewer._bounds = (left, right, bottom, top)
    width, height,  \* Viewer.width, Viewer.height
    ax,             \* Viewer.ax: limits and artists
    canvas,         \* Viewer.canvas: what canvas.draw() last rasterized
    ret,            \* record of the last call on the Viewer
    \* --- SimpleImageViewer (SpecImage)
    figure, icanvas, iax, isopen,
    iret            \* record of the last call on the SimpleImageViewer

affineVars == <<tr, pt, out>>
geomVars   == <<obj, gret>>
viewerVars == <<geoms, onetime_geoms, _bounds, width, height, ax, canvas, ret>>
imageVars  == <<figure, icanvas, iax, isopen, iret>>
vars       == <<affineVars, geomVars, viewerVars, imageVars>>

None == "None"

(***************************************************************************)
(* Bounds of the model.                                                    *)
(***************************************************************************)
MaxAttrs  == 4      \* longest attribute list of the Geom under study
MaxVerts  == 3      \* longest vertex list
MaxGeoms  == 3      \* most Drawables registered at once, both lists together
MaxDim    == 2      \* image height and width range over 1 .. MaxDim
MaxChan   == 4      \* image channel counts range over 1 .. MaxChan

(***************************************************************************)
(* matplotlib.transforms.Affine2D, as far as rendering.py uses it.  The    *)
(* record <<a, b, c, d, e, f>> stands for the matrix                       *)
(*      a c e                                                              *)
(*      b d f                                                              *)
(*      0 0 1                                                              *)
(* and maps (x, y) to (a x + c y + e, b x + d y + f).                      *)
(***************************************************************************)
Affine2D == [a |-> 1, b |-> 0, c |-> 0, d |-> 1, e |-> 0, f |-> 0]

Cos(k) == CASE k % 4 = 0 -> 1 [] k % 4 = 1 -> 0 [] k % 4 = 2 -> -1 [] OTHER -> 0
Sin(k) == CASE k % 4 = 0 -> 0 [] k % 4 = 1 -> 1 [] k % 4 = 2 -> 0 [] OTHER -> -1

\* t.scale(sx, sy): the first row is multiplied by sx, the second by sy
Affine2D_scale(t, sx, sy) ==
    [a |-> t.a * sx, c |-> t.c * sx, e |-> t.e * sx,
     b |-> t.b * sy, d |-> t.d * sy, f |-> t.f * sy]

\* t.rotate(theta): the rotation matrix is multiplied on the left
Affine2D_rotate(t, k) ==
    [a |-> Cos(k) * t.a - Sin(k) * t.b,
     c |-> Cos(k) * t.c - Sin(k) * t.d,
     e |-> Cos(k) * t.e - Sin(k) * t.f,
     b |-> Sin(k) * t.a + Cos(k) * t.b,
     d |-> Sin(k) * t.c + Cos(k) * t.d,
     f |-> Sin(k) * t.e + Cos(k) * t.f]

\* t.translate(tx, ty)
Affine2D_translate(t, tx, ty) ==
    [t EXCEPT !.e = t.e + tx, !.f = t.f + ty]

\* first + second: the transform that applies first, then second
Affine2D_add(first, second) ==
    [a |-> second.a * first.a + second.c * first.b,
     c |-> second.a * first.c + second.c * first.d,
     e |-> second.a * first.e + second.c * first.f + second.e,
     b |-> second.b * first.a + second.d * first.b,
     d |-> second.b * first.c + second.d * first.d,
     f |-> second.b * first.e + second.d * first.f + second.f]

\* t.transform(p) for one point
Affine2D_transform_point(t, p) ==
    <<t.a * p[1] + t.c * p[2] + t.e, t.b * p[1] + t.d * p[2] + t.f>>

\* t.transform(pts) for an array of points
Affine2D_transform(t, pts) ==
    [i \in 1..Len(pts) |-> Affine2D_transform_point(t, pts[i])]

(***************************************************************************)
(* class Transform(Attr)                                                   *)
(***************************************************************************)
Transform(translation, rotation, scale) ==
    [cls |-> "Transform", translation |-> translation,
     rotation |-> rotation, scale |-> scale]

Transform_set_translation(self, newx, newy) ==
    [self EXCEPT !.translation = <<newx, newy>>]

Transform_set_rotation(self, new) ==
    [self EXCEPT !.rotation = new]

Transform_set_scale(self, newx, newy) ==
    [self EXCEPT !.scale = <<newx, newy>>]

\* A slip of as_affine: the translation is applied before the scale.
Transform_as_affine_translate_first(self) ==
    LET tx == self.translation[1]
        ty == self.translation[2]
        sx == self.scale[1]
        sy == self.scale[2]
        t0 == Affine2D
        t1 == IF tx # 0 \/ ty # 0 THEN Affine2D_translate(t0, tx, ty) ELSE t0
        t2 == IF self.rotation # 0 THEN Affine2D_rotate(t1, self.rotation) ELSE t1
        t3 == IF sx # 1 \/ sy # 1 THEN Affine2D_scale(t2, sx, sy) ELSE t2
    IN  t3

Transform_as_affine(self) ==
    LET tx == self.translation[1]
        ty == self.translation[2]
        sx == self.scale[1]
        sy == self.scale[2]
        t0 == Affine2D
        t1 == IF sx # 1 \/ sy # 1 THEN Affine2D_scale(t0, sx, sy) ELSE t0
        t2 == IF self.rotation # 0 THEN Affine2D_rotate(t1, self.rotation) ELSE t1
        t3 == IF tx # 0 \/ ty # 0 THEN Affine2D_translate(t2, tx, ty) ELSE t2
    IN  t3

(***************************************************************************)
(* Inputs of the Transform specification.                                  *)
(***************************************************************************)
Translations == {<<0, 0>>, <<5, 0>>, <<1, -2>>}
Rotations    == 0..3
Scales       == {<<1, 1>>, <<2, 2>>, <<2, 3>>}
Points       == {<<0, 0>>, <<1, 0>>, <<1, 2>>}

AffineIdle ==
    /\ tr = Transform(<<0, 0>>, 0, <<1, 1>>)
    /\ pt = <<0, 0>>
    /\ out = <<>>

InitAffine ==
    /\ tr \in {Transform(t, r, s) : t \in Translations, r \in Rotations, s \in Scales}
    /\ pt \in Points
    /\ out = <<>>

SetTranslation ==
    /\ \E t \in Translations : tr' = Transform_set_translation(tr, t[1], t[2])
    /\ out' = <<>>
    /\ UNCHANGED <<pt, geomVars, viewerVars, imageVars>>

SetRotation ==
    /\ \E r \in Rotations : tr' = Transform_set_rotation(tr, r)
    /\ out' = <<>>
    /\ UNCHANGED <<pt, geomVars, viewerVars, imageVars>>

SetScale ==
    /\ \E s \in Scales : tr' = Transform_set_scale(tr, s[1], s[2])
    /\ out' = <<>>
    /\ UNCHANGED <<pt, geomVars, viewerVars, imageVars>>

\* as_affine().transform([pt]) on the Transform as it stands
ApplyAffine ==
    /\ out' = <<[affine |-> Transform_as_affine(tr),
                 point  |-> Affine2D_transform_point(Transform_as_affine(tr), pt)]>>
    /\ UNCHANGED <<tr, pt, geomVars, viewerVars, imageVars>>

(***************************************************************************)
(* class Color(Attr), class LineWidth(Attr)                                *)
(***************************************************************************)
ColorOne == 2       \* the channel value 1.0, counted in halves

Min(x, y) == IF x < y THEN x ELSE y
Max(x, y) == IF x > y THEN x ELSE y

_clamp01(x) == Max(0, Min(ColorOne, x))

Color(vec4) ==
    [cls |-> "Color",
     vec4 |-> <<_clamp01(vec4[1]), _clamp01(vec4[2]),
                _clamp01(vec4[3]), _clamp01(vec4[4])>>]

LineWidth(stroke) == [cls |-> "LineWidth", stroke |-> stroke]

(***************************************************************************)
(* class Geom and its subclasses.  A Geom is a record; the subclasses add  *)
(* their own fields (v, close, radius, gs).                                *)
(***************************************************************************)
Geom_init ==
    [kind |-> "Geom",
     _color |-> Color(<<0, 0, 0, ColorOne>>),
     attrs |-> <<Color(<<0, 0, 0, ColorOne>>)>>,
     _linewidth |-> LineWidth(1)]

FilledPolygon(v) ==
    [kind |-> "FilledPolygon", _color |-> Geom_init._color,
     attrs |-> Geom_init.attrs, _linewidth |-> Geom_init._linewidth, v |-> v]

PolyLine(v, close) ==
    [kind |-> "PolyLine", _color |-> Geom_init._color,
     attrs |-> Geom_init.attrs, _linewidth |-> Geom_init._linewidth,
     v |-> v, close |-> close]

Circle(radius) ==
    [kind |-> "Circle", _color |-> Geom_init._color,
     attrs |-> Geom_init.attrs, _linewidth |-> Geom_init._linewidth,
     radius |-> radius]

Compound(gs) ==
    [kind |-> "Compound", _color |-> Geom_init._color,
     attrs |-> Geom_init.attrs, _linewidth |-> Geom_init._linewidth,
     gs |-> gs]

Geom_add_attr(self, attr) ==
    [self EXCEPT !.attrs = Append(self.attrs, attr)]

\* [a for a in seq if not isinstance(a, Color)]
RECURSIVE WithoutColors(_)
WithoutColors(seq) ==
    IF seq = <<>> THEN <<>>
    ELSE IF Head(seq).cls = "Color" THEN WithoutColors(Tail(seq))
         ELSE <<Head(seq)>> \o WithoutColors(Tail(seq))

Geom_set_color(self, r, g, b, alpha) ==
    [self EXCEPT !._color = Color(<<r, g, b, alpha>>),
                 !.attrs = Append(WithoutColors(self.attrs),
                                  Color(<<r, g, b, alpha>>))]

Geom_set_linewidth(self, x) ==
    [self EXCEPT !._linewidth = LineWidth(x)]

\* for attr in reversed(attrs): if Transform: affine = affine + attr.as_affine()
RECURSIVE CollectReversed(_, _)
CollectReversed(attrs, affine) ==
    IF attrs = <<>> THEN affine
    ELSE LET attr == attrs[Len(attrs)]
             rest == SubSeq(attrs, 1, Len(attrs) - 1)
         IN  IF attr.cls = "Transform"
             THEN CollectReversed(rest, Affine2D_add(affine, Transform_as_affine(attr)))
             ELSE CollectReversed(rest, affine)

_collect_transform(self) == CollectReversed(self.attrs, Affine2D)

_get_colors(self) ==
    LET c == self._color.vec4
    IN  [face |-> c,
         edge |-> <<c[1] \div 2, c[2] \div 2, c[3] \div 2, c[4] \div 2>>]

_get_linewidth(self) == self._linewidth.stroke

(***************************************************************************)
(* draw(ax).  The result is the axes after the call and the exception the  *)
(* call raised (None when it returned).                                    *)
(***************************************************************************)
Geom_draw(self, axes) ==
    [ax |-> axes, exc |-> "NotImplementedError"]

FilledPolygon_draw(self, axes) ==
    LET patch == [type |-> "Polygon", xy |-> self.v, closed |-> TRUE,
                  facecolor |-> _get_colors(self).face,
                  edgecolor |-> _get_colors(self).edge,
                  linewidth |-> _get_linewidth(self),
                  transform |-> _collect_transform(self)]
    IN  [ax |-> [axes EXCEPT !.artists = Append(@, patch)], exc |-> None]

\* A slip of PolyLine.draw: the closing point is never added.
PolyLine_draw_unclosed(self, axes) ==
    IF self.v = <<>>
    THEN [ax |-> axes, exc |-> "IndexError"]
    ELSE LET pts_t == Affine2D_transform(_collect_transform(self), self.v)
             line  == [type |-> "Line2D", data |-> pts_t,
                       linewidth |-> _get_linewidth(self),
                       color |-> _get_colors(self).edge]
         IN  [ax |-> [axes EXCEPT !.artists = Append(@, line)], exc |-> None]

PolyLine_draw(self, axes) ==
    IF self.v = <<>>
    THEN \* self.v[0], or pts[:, 0] on an array of shape (0,)
         [ax |-> axes, exc |-> "IndexError"]
    ELSE LET pts   == IF self.close THEN Append(self.v, self.v[1]) ELSE self.v
             aff   == _collect_transform(self)
             pts_t == Affine2D_transform(aff, pts)
             line  == [type |-> "Line2D", data |-> pts_t,
                       linewidth |-> _get_linewidth(self),
                       color |-> _get_colors(self).edge]
         IN  [ax |-> [axes EXCEPT !.artists = Append(@, line)], exc |-> None]

Circle_draw(self, axes) ==
    LET patch == [type |-> "Circle", center |-> <<0, 0>>, radius |-> self.radius,
                  facecolor |-> _get_colors(self).face,
                  edgecolor |-> _get_colors(self).edge,
                  linewidth |-> _get_linewidth(self),
                  transform |-> _collect_transform(self)]
    IN  [ax |-> [axes EXCEPT !.artists = Append(@, patch)], exc |-> None]

RECURSIVE draw(_, _)
RECURSIVE Compound_draw(_, _)
\* for g in gs: g.draw(ax), left at the first exception
Compound_draw(gs, axes) ==
    IF gs = <<>> THEN [ax |-> axes, exc |-> None]
    ELSE LET r == draw(Head(gs), axes)
         IN  IF r.exc # None THEN r ELSE Compound_draw(Tail(gs), r.ax)

\* g.draw(ax), dispatched on the class of g
draw(self, axes) ==
    CASE self.kind = "FilledPolygon" -> FilledPolygon_draw(self, axes)
      [] self.kind = "PolyLine"      -> PolyLine_draw(self, axes)
      [] self.kind = "Circle"        -> Circle_draw(self, axes)
      [] self.kind = "Compound"      -> Compound_draw(self.gs, axes)
      [] OTHER                       -> Geom_draw(self, axes)

\* ax.clear() followed by the limits of _prepare_axes
Axes(left, right, bottom, top) ==
    [xlim |-> <<left, right>>, ylim |-> <<bottom, top>>, artists |-> <<>>]

(***************************************************************************)
(* Inputs of the Geom specification.                                       *)
(***************************************************************************)
Vertex(i) ==
    CASE i % 4 = 1 -> <<0, 0>> [] i % 4 = 2 -> <<1, 0>>
      [] i % 4 = 3 -> <<1, 1>> [] OTHER -> <<0, 1>>

Verts(n) == [i \in 1..n |-> Vertex(i)]

GeomInputs ==
    {Geom_init, Circle(1), FilledPolygon(Verts(MaxVerts)),
     Compound(<<Circle(1), Geom_init, Circle(2)>>)}
    \cup {PolyLine(Verts(n), cl) : n \in 0..MaxVerts, cl \in BOOLEAN}

ScaleTwo  == Transform(<<0, 0>>, 0, <<2, 2>>)
ShiftFive == Transform(<<5, 0>>, 0, <<1, 1>>)
Quarter   == Transform(<<0, 0>>, 1, <<1, 1>>)

AttrInputs ==
    {ScaleTwo, ShiftFive, Quarter, LineWidth(2), Color(<<ColorOne, 0, 0, ColorOne>>)}

\* arguments of set_color; the second is clamped to (1, 0, 1, 1)
ColorInputs == {<<0, ColorOne, 0, ColorOne>>, <<ColorOne + 1, -1, ColorOne, ColorOne>>}

GeomIdle ==
    /\ obj = Geom_init
    /\ gret = [op |-> "init", exc |-> None, artists |-> <<>>]

InitGeom ==
    /\ obj \in GeomInputs
    /\ gret = [op |-> "init", exc |-> None, artists |-> <<>>]

AddAttr ==
    /\ Len(obj.attrs) < MaxAttrs
    /\ \E attr \in AttrInputs : obj' = Geom_add_attr(obj, attr)
    /\ gret' = [op |-> "add_attr", exc |-> None, artists |-> <<>>]
    /\ UNCHANGED <<affineVars, viewerVars, imageVars>>

SetColor ==
    /\ \E c \in ColorInputs : obj' = Geom_set_color(obj, c[1], c[2], c[3], c[4])
    /\ gret' = [op |-> "set_color", exc |-> None, artists |-> <<>>]
    /\ UNCHANGED <<affineVars, viewerVars, imageVars>>

SetLinewidth ==
    /\ \E x \in 1..2 : obj' = Geom_set_linewidth(obj, x)
    /\ gret' = [op |-> "set_linewidth", exc |-> None, artists |-> <<>>]
    /\ UNCHANGED <<affineVars, viewerVars, imageVars>>

\* obj.draw(ax) on freshly prepared axes
Draw ==
    LET r == draw(obj, Axes(-1, 1, -1, 1))
    IN  /\ obj' = obj
        /\ gret' = [op |-> "draw", exc |-> r.exc, artists |-> r.ax.artists]
        /\ UNCHANGED <<affineVars, viewerVars, imageVars>>


(***************************************************************************)
(* class Viewer.  The Drawables a caller can register are the objects of   *)
(* Scene; the lists hold their indices, which stand for object identity.   *)
(***************************************************************************)
Scene ==
    <<Circle(1), PolyLine(Verts(2), FALSE), Geom_init>>

GeomIds == 1..Len(Scene)

\* arguments of set_bounds: (left, right, bottom, top)
BoundsInputs ==
    {<<0, 1, 0, 1>>, <<1, 0, 0, 1>>, <<0, 1, 1, 0>>, <<0, 0, -1, 1>>, <<-1, 1, 1, 1>>}

\* the return value None is <<>>, an array is <<array>>
Call(op, exc, value, drawn) ==
    [op |-> op, exc |-> exc, value |-> value, drawn |-> drawn]

ViewerIdle ==
    /\ geoms = <<>>
    /\ onetime_geoms = <<>>
    /\ _bounds = <<-1, 1, -1, 1>>
    /\ width = 2
    /\ height = 1
    /\ ax = Axes(0, 1, 0, 1)
    /\ canvas = <<>>
    /\ ret = Call("init", None, <<>>, <<>>)

\* Viewer(width, height): a 2 x 1 pixel viewer
InitViewer == ViewerIdle

\* A slip of set_bounds: only the horizontal extent is validated.
BoundsAccepted_horizontal_only(left, right, bottom, top) ==
    right > left

\* assert right > left and top > bottom
BoundsAccepted(left, right, bottom, top) ==
    right > left /\ top > bottom

Viewer_set_bounds(left, right, bottom, top) ==
    IF BoundsAccepted(left, right, bottom, top)
    THEN /\ _bounds' = <<left, right, bottom, top>>
         /\ ret' = Call("set_bounds", None, <<>>, <<>>)
         /\ UNCHANGED <<geoms, onetime_geoms, width, height, ax, canvas>>
    ELSE /\ ret' = Call("set_bounds", "AssertionError", <<>>, <<>>)
         /\ UNCHANGED <<geoms, onetime_geoms, _bounds, width, height, ax, canvas>>

Viewer_add_geom(geom) ==
    /\ geoms' = Append(geoms, geom)
    /\ ret' = Call("add_geom", None, <<>>, <<>>)
    /\ UNCHANGED <<onetime_geoms, _bounds, width, height, ax, canvas>>

Viewer_add_onetime(geom) ==
    /\ onetime_geoms' = Append(onetime_geoms, geom)
    /\ ret' = Call("add_onetime", None, <<>>, <<>>)
    /\ UNCHANGED <<geoms, _bounds, width, height, ax, canvas>>

_prepare_axes == Axes(_bounds[1], _bounds[2], _bounds[3], _bounds[4])

\* for g in list: g.draw(ax), left at the first exception; drawn lists the
\* Drawables whose draw was called
RECURSIVE DrawEach(_, _, _)
DrawEach(list, axes, drawn) ==
    IF list = <<>> THEN [ax |-> axes, exc |-> None, drawn |-> drawn]
    ELSE LET r == draw(Scene[Head(list)], axes)
         IN  IF r.exc # None
             THEN [ax |-> r.ax, exc |-> r.exc, drawn |-> Append(drawn, Head(list))]
             ELSE DrawEach(Tail(list), r.ax, Append(drawn, Head(list)))

\* A slip of render: the onetime list is drawn before the persistent list.
RenderOrder_onetime_first(persistent, onetime) == <<onetime, persistent>>

\* render draws self.geoms, then self.onetime_geoms
RenderOrder(persistent, onetime) == <<persistent, onetime>>

\* A slip of render: the onetime list is cleared only when pixels are returned.
OnetimeAfterRender_kept_without_pixels(onetime, return_rgb_array) ==
    IF return_rgb_array THEN <<>> ELSE onetime

\* self.onetime_geoms = [] after the two loops
OnetimeAfterRender(onetime, return_rgb_array) == <<>>

\* A slip of render: the persistent list is emptied with the onetime list.
PersistentAfterRender_cleared(persistent) == <<>>

\* render assigns nothing to self.geoms
PersistentAfterRender(persistent) == persistent

\* the two loops of render: the axes, the exception and the draw calls
RenderLoops(persistent, onetime, axes) ==
    LET order == RenderOrder(persistent, onetime)
        r1 == DrawEach(order[1], axes, <<>>)
    IN  IF r1.exc # None THEN r1 ELSE DrawEach(order[2], r1.ax, r1.drawn)

Viewer_render(return_rgb_array) ==
    \E r \in {RenderLoops(geoms, onetime_geoms, _prepare_axes)} :
        IF r.exc # None
        THEN \* the exception leaves render inside one of the loops
             /\ ax' = r.ax
             /\ ret' = Call("render", r.exc, <<>>, r.drawn)
             /\ UNCHANGED <<geoms, onetime_geoms, _bounds, width, height, canvas>>
        ELSE /\ ax' = r.ax
             /\ geoms' = PersistentAfterRender(geoms)
             /\ onetime_geoms' = OnetimeAfterRender(onetime_geoms, return_rgb_array)
             /\ canvas' = <<r.ax>>
             /\ ret' = Call("render", None,
                            IF return_rgb_array
                            THEN <<[shape |-> <<height, width, 3>>, image |-> r.ax]>>
                            ELSE <<>>,
                            r.drawn)
             /\ UNCHANGED <<_bounds, width, height>>

(***************************************************************************)
(* class SimpleImageViewer.  An attribute that is None is <<>>; one that   *)
(* holds an object is <<object>>.  An array is its shape and its content.  *)
(***************************************************************************)
ImageCall(op, arg, exc) == [op |-> op, arg |-> arg, exc |-> exc]

ImageIdle ==
    /\ figure = <<>>
    /\ icanvas = <<>>
    /\ iax = <<>>
    /\ isopen = FALSE
    /\ iret = ImageCall("init", <<>>, None)

\* SimpleImageViewer()
InitImage == ImageIdle

\* A slip of imshow: RGBA buffers pass the channel check too.
ChannelsAccepted_rgba(c) == c \in {3, 4}

\* if c != 3: raise AssertionError
ChannelsAccepted(c) == c = 3

SimpleImageViewer_imshow(arr) ==
    IF Len(arr.shape) # 3
    THEN \* h, w, c = arr.shape does not unpack
         /\ iret' = ImageCall("imshow", <<arr>>, "ValueError")
         /\ UNCHANGED <<figure, icanvas, iax, isopen>>
    ELSE LET h == arr.shape[1]
             w == arr.shape[2]
             c == arr.shape[3]
         IN  IF ~ChannelsAccepted(c)
             THEN /\ iret' = ImageCall("imshow", <<arr>>, "AssertionError")
                  /\ UNCHANGED <<figure, icanvas, iax, isopen>>
             ELSE /\ IF figure = <<>>
                     THEN /\ figure' = <<[figsize |-> <<w, h>>]>>
                          /\ isopen' = TRUE
                     ELSE UNCHANGED <<figure, isopen>>
                  /\ iax' = <<[images |-> <<arr>>]>>
                  /\ icanvas' = <<[drawn |-> <<arr>>]>>
                  /\ iret' = ImageCall("imshow", <<arr>>, None)

SimpleImageViewer_close ==
    /\ isopen' = FALSE
    /\ iret' = ImageCall("close", <<>>, None)
    /\ UNCHANGED <<figure, icanvas, iax>>

Shapes ==
    {<<h, w>> : h \in 1..MaxDim, w \in 1..MaxDim}
    \cup {<<h, w, c>> : h \in 1..MaxDim, w \in 1..MaxDim, c \in 1..MaxChan}
    \cup {<<h, w, c, 1>> : h \in 1..MaxDim, w \in 1..MaxDim, c \in 2..3}

Arrays == {[shape |-> sh, data |-> d] : sh \in Shapes, d \in {"x", "y"}}

(***************************************************************************)
(* The four specifications.                                                *)
(***************************************************************************)
SetBounds ==
    /\ \E b \in BoundsInputs : Viewer_set_bounds(b[1], b[2], b[3], b[4])
    /\ UNCHANGED <<affineVars, geomVars, imageVars>>

AddGeom ==
    /\ Len(geoms) + Len(onetime_geoms) < MaxGeoms
    /\ \E g \in GeomIds : Viewer_add_geom(g)
    /\ UNCHANGED <<affineVars, geomVars, imageVars>>

AddOnetime ==
    /\ Len(geoms) + Len(onetime_geoms) < MaxGeoms
    /\ \E g \in GeomIds : Viewer_add_onetime(g)
    /\ UNCHANGED <<affineVars, geomVars, imageVars>>

Render ==
    /\ \E return_rgb_array \in BOOLEAN : Viewer_render(return_rgb_array)
    /\ UNCHANGED <<affineVars, geomVars, imageVars>>

Imshow ==
    /\ \E arr \in Arrays : SimpleImageViewer_imshow(arr)
    /\ UNCHANGED <<affineVars, geomVars, viewerVars>>

ImageClose ==
    /\ SimpleImageViewer_close
    /\ UNCHANGED <<affineVars, geomVars, viewerVars>>

Init == InitViewer /\ AffineIdle /\ GeomIdle /\ ImageIdle
Next == SetBounds \/ AddGeom \/ AddOnetime \/ Render
Spec == Init /\ [][Next]_vars

InitA == InitAffine /\ GeomIdle /\ ViewerIdle /\ ImageIdle
NextAffine == SetTranslation \/ SetRotation \/ SetScale \/ ApplyAffine
SpecAffine == InitA /\ [][NextAffine]_vars

InitG == InitGeom /\ AffineIdle /\ ViewerIdle /\ ImageIdle
NextGeom == AddAttr \/ SetColor \/ SetLinewidth \/ Draw
SpecGeom == InitG /\ [][NextGeom]_vars

InitI == InitImage /\ AffineIdle /\ GeomIdle /\ ViewerIdle
NextImage == Imshow \/ ImageClose
SpecImage == InitI /\ [][NextImage]_vars


(***************************************************************************)
(* Properties of the Viewer (checked under Spec).                          *)
(*                                                                         *)
(* A step whose new ret records a render is a render step: every other     *)
(* operation overwrites ret with its own record.                           *)
(***************************************************************************)
RenderCompleted == ret.op = "render" /\ ret.exc = None
RenderAborted   == ret.op = "render" /\ ret.exc # None

IsPrefix(p, q) == Len(p) <= Len(q) /\ SubSeq(q, 1, Len(p)) = p

\* C1: a render call that completes has drawn, after the persistent list,
\* exactly the Drawables the onetime list held when it was called, and leaves
\* the onetime list empty, with and without return_rgb_array; so a Drawable
\* passed to add_onetime is drawn by the next completed render and by no later
\* one unless it is registered again.
C1_OnetimeOneFrame ==
    [][(RenderCompleted' =>
            /\ ret'.drawn = geoms \o onetime_geoms
            /\ onetime_geoms' = <<>>)]_vars

\* a render without pixel extraction has just drawn and dropped a onetime entry
C1_Witness ==
    /\ RenderCompleted
    /\ ret.value = <<>>
    /\ Len(ret.drawn) > Len(geoms)
    /\ onetime_geoms = <<>>

\* C3: set_bounds with right <= left or top <= bottom fails and leaves the
\* stored bounds as they were; the stored bounds always satisfy right > left
\* and top > bottom.
C3_BoundsValidated ==
    /\ [](_bounds[2] > _bounds[1] /\ _bounds[4] > _bounds[3])
    /\ [][(\A b \in BoundsInputs :
              ((b[2] <= b[1] \/ b[4] <= b[3])
                  /\ Viewer_set_bounds(b[1], b[2], b[3], b[4]))
              => (ret'.exc = "AssertionError" /\ _bounds' = _bounds))]_vars

\* a set_bounds call has failed after an earlier one succeeded
C3_Witness ==
    /\ ret.op = "set_bounds"
    /\ ret.exc = "AssertionError"
    /\ _bounds = <<0, 1, 0, 1>>

\* C5: the draw calls of one render call follow the persistent list in
\* registration order and then the onetime list in registration order, as the
\* two lists stood when render was called: the calls are a prefix of that
\* sequence, the whole of it when render completes, and a call that aborts
\* stops at the Drawable whose draw raised.
C5_DrawOrder ==
    [][(ret'.op = "render" =>
            /\ IsPrefix(ret'.drawn, geoms \o onetime_geoms)
            /\ ret'.exc = None => ret'.drawn = geoms \o onetime_geoms
            /\ ret'.exc # None =>
                   /\ ret'.drawn # <<>>
                   /\ Scene[ret'.drawn[Len(ret'.drawn)]].kind = "Geom")]_vars

\* a completed render drew two different persistent Drawables, then a onetime one
C5_Witness ==
    /\ RenderCompleted
    /\ Len(geoms) = 2
    /\ geoms[1] # geoms[2]
    /\ Len(ret.drawn) = 3
    /\ Len(ax.artists) = 3

\* C6 as stated: every render call draws every Drawable of the persistent list.
C6_EveryRenderDrawsPersistent ==
    ret.op = "render" => IsPrefix(geoms, ret.drawn)

\* C6, amended: a render call never changes the persistent list, the stored
\* bounds or the pixel dimensions, whether it completes or aborts, and every
\* render call that completes draws every Drawable of the persistent list.
C6_RenderKeepsPersistent ==
    [][(ret'.op = "render" =>
            /\ geoms' = geoms
            /\ _bounds' = _bounds
            /\ width' = width
            /\ height' = height
            /\ ret'.exc = None => IsPrefix(geoms, ret'.drawn))]_vars

\* a render completed on a canvas that an earlier render had already drawn,
\* with two persistent Drawables and no onetime one
C6_Witness ==
    /\ RenderCompleted
    /\ Len(geoms) = 2
    /\ ret.drawn = geoms
    /\ canvas # <<>>
    /\ canvas[1].artists = ax.artists

\* C10: a render call that aborts leaves the axes, the rasterized canvas, the
\* persistent list and the onetime list as they were before the call.
C10_AbortedRenderLeavesState ==
    [][(RenderAborted' =>
            /\ ax' = ax
            /\ canvas' = canvas
            /\ geoms' = geoms
            /\ onetime_geoms' = onetime_geoms)]_vars


(***************************************************************************)
(* Properties of one Geom (checked under SpecGeom).                        *)
(***************************************************************************)
\* the Transform attributes of an attribute list, in attachment order
RECURSIVE TransformsOf(_)
TransformsOf(attrs) ==
    IF attrs = <<>> THEN <<>>
    ELSE IF Head(attrs).cls = "Transform"
         THEN <<Head(attrs)>> \o TransformsOf(Tail(attrs))
         ELSE TransformsOf(Tail(attrs))

\* resolve(Tn) o ... o resolve(T1) applied to p: T1 acts on p first
RECURSIVE InAttachmentOrder(_, _)
InAttachmentOrder(ts, p) ==
    IF ts = <<>> THEN p
    ELSE InAttachmentOrder(Tail(ts),
                           Affine2D_transform_point(Transform_as_affine(Head(ts)), p))

\* C2: the effective transform of a Drawable with transforms T1, .., Tn
\* attached in that order maps every local point p to
\* resolve(Tn)(.. resolve(T1)(p) ..); with scale (2,2) attached and then
\* translation (5,0), the local origin goes to (5,0).
C2_AttachmentOrderComposition ==
    \A p \in Points :
        Affine2D_transform_point(_collect_transform(obj), p)
            = InAttachmentOrder(TransformsOf(obj.attrs), p)

\* the last Color attribute of an attribute list (<<>> when there is none)
RECURSIVE LastColor(_)
LastColor(attrs) ==
    IF attrs = <<>> THEN <<>>
    ELSE IF attrs[Len(attrs)].cls = "Color" THEN <<attrs[Len(attrs)]>>
         ELSE LastColor(SubSeq(attrs, 1, Len(attrs) - 1))

NumColors(attrs) == Cardinality({i \in 1..Len(attrs) : attrs[i].cls = "Color"})

\* C4: after any sequence of set_color and add_attr calls the colour slot
\* _color is the most recently registered Color attribute of attrs, and a
\* set_color call leaves one Color attribute in attrs, the new one.
C4_ColorSlotIsLastColor ==
    /\ LastColor(obj.attrs) = <<obj._color>>
    /\ gret.op = "set_color" => NumColors(obj.attrs) = 1

\* the segments a rasterizer strokes for a line through pts
Segments(pts) == [i \in 1..(Len(pts) - 1) |-> <<pts[i], pts[i + 1]>>]

\* C9: drawing a PolyLine with n >= 1 stored vertices adds one line of n
\* segments when it is closed, the last one from the last vertex back to the
\* first, and of n - 1 segments when it is open, through the stored vertices
\* under the effective transform; draw leaves the PolyLine as it was.
C9_PolyLineSegments ==
    /\ []((gret.op = "draw" /\ obj.kind = "PolyLine" /\ Len(obj.v) >= 1) =>
            LET n    == Len(obj.v)
                aff  == _collect_transform(obj)
                segs == Segments(gret.artists[1].data)
            IN  /\ gret.exc = None
                /\ Len(gret.artists) = 1
                /\ Len(segs) = IF obj.close THEN n ELSE n - 1
                /\ \A i \in 1..(n - 1) :
                       segs[i] = <<Affine2D_transform_point(aff, obj.v[i]),
                                   Affine2D_transform_point(aff, obj.v[i + 1])>>
                /\ obj.close =>
                       segs[n] = <<Affine2D_transform_point(aff, obj.v[n]),
                                   Affine2D_transform_point(aff, obj.v[1])>>)
    /\ [][(gret'.op = "draw" => obj' = obj)]_vars

\* a closed PolyLine of three vertices, carrying a transform, was drawn as
\* three segments
C9_Witness ==
    /\ gret.op = "draw"
    /\ obj.kind = "PolyLine"
    /\ obj.close
    /\ Len(obj.v) = 3
    /\ TransformsOf(obj.attrs) # <<>>
    /\ Len(Segments(gret.artists[1].data)) = 3

(***************************************************************************)
(* Properties of one Transform (checked under SpecAffine).                 *)
(***************************************************************************)
ScalePoint(p, s)     == <<p[1] * s[1], p[2] * s[2]>>
RotatePoint(p, k)    == <<Cos(k) * p[1] - Sin(k) * p[2], Sin(k) * p[1] + Cos(k) * p[2]>>
TranslatePoint(p, t) == <<p[1] + t[1], p[2] + t[2]>>

\* scale, rotate and translate all applied, identity or not
ComposedInFull(t) ==
    Affine2D_translate(
        Affine2D_rotate(Affine2D_scale(Affine2D, t.scale[1], t.scale[2]), t.rotation),
        t.translation[1], t.translation[2])

\* C8: as_affine maps a point p to translate(rotate(scale(p))), and the
\* matrix it builds, which leaves identity components out, is the matrix
\* built with every component applied.
C8_ScaleRotateTranslate ==
    out # <<>> =>
        /\ out[1].point =
               TranslatePoint(RotatePoint(ScalePoint(pt, tr.scale), tr.rotation),
                              tr.translation)
        /\ out[1].affine = ComposedInFull(tr)

\* as_affine was applied to a point off the origin with no identity component
C8_Witness ==
    /\ out # <<>>
    /\ tr.scale = <<2, 3>>
    /\ tr.rotation = 1
    /\ tr.translation = <<1, -2>>
    /\ pt = <<1, 2>>

(***************************************************************************)
(* Properties of the SimpleImageViewer (checked under SpecImage).          *)
(***************************************************************************)
\* C7: imshow of a buffer (h, w, c) with c # 3 fails with the AssertionError
\* of the channel check, and a failed imshow, whatever the shape of the
\* buffer, leaves figure, canvas, axes content and isopen as they were.
C7_BadChannelsRejected ==
    [][(iret'.op = "imshow" =>
            LET shape == iret'.arg[1].shape
            IN  /\ (Len(shape) = 3 /\ shape[3] # 3) => iret'.exc = "AssertionError"
                /\ Len(shape) # 3 => iret'.exc # None
                /\ iret'.exc # None =>
                       UNCHANGED <<figure, icanvas, iax, isopen>>)]_vars

\* a four-channel buffer was rejected while an earlier image was on display
C7_Witness ==
    /\ iret.op = "imshow"
    /\ iret.exc = "AssertionError"
    /\ iret.arg[1].shape[3] = 4
    /\ iax # <<>>
    /\ icanvas # <<>>
    /\ icanvas[1].drawn = iax[1].images


====
